---- MODULE Spec2Model ----
(***************************************************************************)
(* Model of backend/main.py: the /process request of the insurance report  *)
(* service, from upload validation through extraction, pay-in              *)
(* classification and the rule-table payout engine to the HTTP response.   *)
(*                                                                         *)
(* Text is a sequence of one-character strings, so that substring tests,   *)
(* upper-casing, stripping and float parsing are computed as Python        *)
(* computes them.  The two non-ASCII dashes are the one-element texts      *)
(* "<en-dash>" and "<em-dash>".                                            *)
(* Percentages are integers in units of 1/10000 of a percent point (Unit   *)
(* per percent point), which represents every pay-in with two decimals and *)
(* its 90% / 88% products exactly; NaN and infinities are outside the      *)
(* input alphabet.                                                         *)
(***************************************************************************)
EXTENDS Integers, Sequences, FiniteSets, TLC

VARIABLES pc, upload, modelCalls, extracted, data, calculated, locals, response

vars == <<pc, upload, modelCalls, extracted, data, calculated, locals, response>>

-----------------------------------------------------------------------------
(* Text primitives (Python str methods used by the source)                 *)

Lowers == <<"a", "b", "c", "d", "e", "f", "g", "h", "i", "j", "k", "l", "m", "n", "o", "p", "q", "r", "s", "t", "u", "v", "w", "x", "y", "z">>

Uppers == <<"A", "B", "C", "D", "E", "F", "G", "H", "I", "J", "K", "L", "M", "N", "O", "P", "Q", "R", "S", "T", "U", "V", "W", "X", "Y", "Z">>

Digits == <<"0", "1", "2", "3", "4", "5", "6", "7", "8", "9">>

Range(s) == {s[i] : i \in 1..Len(s)}

IndexIn(s, c) == CHOOSE i \in 1..Len(s) : s[i] = c

\* str.upper(), one character
UpperChar(c) == IF c \in Range(Lowers) THEN Uppers[IndexIn(Lowers, c)] ELSE c

\* str.lower(), one character
LowerChar(c) == IF c \in Range(Uppers) THEN Lowers[IndexIn(Uppers, c)] ELSE c

Upper(s) == [i \in 1..Len(s) |-> UpperChar(s[i])]

Lower(s) == [i \in 1..Len(s) |-> LowerChar(s[i])]

\* Python's `k in s` for two strings
Contains(s, k) == \E i \in 0..(Len(s) - Len(k)) : SubSeq(s, i + 1, i + Len(k)) = k

\* str.startswith
StartsWith(s, k) == Len(k) <= Len(s) /\ SubSeq(s, 1, Len(k)) = k

\* str.replace(c, "") for a one-character c
Remove(s, c) == SelectSeq(s, LAMBDA x : x # c)

IsSpace(c) == c = " "

\* str.strip()
Strip(s) ==
    LET nonsp == {i \in 1..Len(s) : ~IsSpace(s[i])}
    IN  IF nonsp = {} THEN <<>>
        ELSE SubSeq(s, CHOOSE i \in nonsp : \A j \in nonsp : i <= j,
                       CHOOSE i \in nonsp : \A j \in nonsp : i >= j)

RECURSIVE Join(_, _)
\* sep.join(parts)
Join(parts, sep) ==
    IF parts = <<>> THEN <<>>
    ELSE IF Len(parts) = 1 THEN parts[1]
    ELSE parts[1] \o sep \o Join(Tail(parts), sep)

Unit == 100 * 100

RECURSIVE NatVal(_)
NatVal(s) ==
    IF s = <<>> THEN 0
    ELSE 10 * NatVal(SubSeq(s, 1, Len(s) - 1)) + (IndexIn(Digits, s[Len(s)]) - 1)

IsDigits(s) == \A i \in 1..Len(s) : s[i] \in Range(Digits)

\* the text without one leading sign
Unsigned(s) == IF s # <<>> /\ s[1] \in {"+", "-"} THEN Tail(s) ELSE s

DotAt(s) == IF "." \in Range(s) THEN IndexIn(s, ".") ELSE Len(s) + 1

\* float(text) succeeds: [sign] digits [. digits] | [sign] . digits
FloatParses(s) ==
    LET u == Unsigned(s)
        ip == SubSeq(u, 1, DotAt(u) - 1)
        fp == SubSeq(u, DotAt(u) + 1, Len(u))
    IN  /\ IsDigits(ip)
        /\ IsDigits(fp)
        /\ Len(ip) + Len(fp) > 0

\* float(text), in Unit-ths of a percent point (four decimals kept)
FloatValue(s) ==
    LET u == Unsigned(s)
        ip == SubSeq(u, 1, DotAt(u) - 1)
        fp == SubSeq(u, DotAt(u) + 1, Len(u))
        f4 == SubSeq(fp \o <<"0", "0", "0", "0">>, 1, 4)
        mag == NatVal(ip) * Unit + NatVal(f4)
    IN  IF s # <<>> /\ s[1] = "-" THEN 0 - mag ELSE mag

\* f"{x:.2f}": x rounded to hundredths (ties to even)
Fmt2(x) ==
    LET q == x \div 100
        r == x % 100
    IN  IF r > 50 \/ (r = 50 /\ q % 2 = 1) THEN q + 1 ELSE q

Max(a, b) == IF a >= b THEN a ELSE b

-----------------------------------------------------------------------------
(* Rule table                                                              *)

NIL == <<"N", "I", "L">>

BELOW_20 == <<"P", "a", "y", "i", "n", " ", "B", "e", "l", "o", "w", " ", "2", "0", "%">>

FROM_21_TO_30 == <<"P", "a", "y", "i", "n", " ", "2", "1", "%", " ", "t", "o", " ", "3", "0", "%">>

FROM_31_TO_50 == <<"P", "a", "y", "i", "n", " ", "3", "1", "%", " ", "t", "o", " ", "5", "0", "%">>

ABOVE_50 == <<"P", "a", "y", "i", "n", " ", "A", "b", "o", "v", "e", " ", "5", "0", "%">>

Rule(lob, seg, po, rem) == [LOB |-> lob, SEGMENT |-> seg, PO |-> po, REMARKS |-> rem]

\* the table with the TAXI rule for pay-ins above 50% left out
FORMULA_DATA_without_taxi_above_50 ==
    << Rule("TW", <<"1", "+", "5">>, <<"9", "0", "%", " ", "o", "f", " ", "P", "a", "y", "i", "n">>, NIL),
       Rule("TW", <<"T", "W", " ", "S", "A", "O", "D", " ", "+", " ", "C", "O", "M", "P">>, <<"9", "0", "%", " ", "o", "f", " ", "P", "a", "y", "i", "n">>, NIL),
       Rule("TW", <<"T", "W", " ", "T", "P">>, <<"-", "2", "%">>, BELOW_20),
       Rule("TW", <<"T", "W", " ", "T", "P">>, <<"-", "3", "%">>, FROM_21_TO_30),
       Rule("TW", <<"T", "W", " ", "T", "P">>, <<"-", "4", "%">>, FROM_31_TO_50),
       Rule("TW", <<"T", "W", " ", "T", "P">>, <<"-", "5", "%">>, ABOVE_50),
       Rule("PVT CAR", <<"P", "V", "T", " ", "C", "A", "R", " ", "C", "O", "M", "P", " ", "+", " ", "S", "A", "O", "D">>, <<"9", "0", "%", " ", "o", "f", " ", "P", "a", "y", "i", "n">>, NIL),
       Rule("PVT CAR", <<"P", "V", "T", " ", "C", "A", "R", " ", "T", "P">>, <<"2", "1">>, NIL),
       Rule("PVT CAR", <<"P", "V", "T", " ", "C", "A", "R", " ", "T", "P">>, <<"2", "1">>, <<"Z", "u", "n", "o", " ", "-", " ", "2", "1">>),
       Rule("CV", <<"A", "l", "l", " ", "G", "V", "W", " ", "&", " ", "P", "C", "V", " ", "3", "W", ",", " ", "G", "C", "V", " ", "3", "W">>, <<"-", "2", "%">>, BELOW_20),
       Rule("CV", <<"A", "l", "l", " ", "G", "V", "W", " ", "&", " ", "P", "C", "V", " ", "3", "W", ",", " ", "G", "C", "V", " ", "3", "W">>, <<"-", "3", "%">>, FROM_21_TO_30),
       Rule("CV", <<"A", "l", "l", " ", "G", "V", "W", " ", "&", " ", "P", "C", "V", " ", "3", "W", ",", " ", "G", "C", "V", " ", "3", "W">>, <<"-", "4", "%">>, FROM_31_TO_50),
       Rule("CV", <<"A", "l", "l", " ", "G", "V", "W", " ", "&", " ", "P", "C", "V", " ", "3", "W", ",", " ", "G", "C", "V", " ", "3", "W">>, <<"-", "5", "%">>, ABOVE_50),
       Rule("BUS", <<"S", "C", "H", "O", "O", "L", " ", "B", "U", "S">>, <<"8", "8", "%", " ", "o", "f", " ", "P", "a", "y", "i", "n">>, NIL),
       Rule("BUS", <<"S", "T", "A", "F", "F", " ", "B", "U", "S">>, <<"8", "8", "%", " ", "o", "f", " ", "P", "a", "y", "i", "n">>, NIL),
       Rule("TAXI", <<"T", "A", "X", "I">>, <<"-", "2", "%">>, BELOW_20),
       Rule("TAXI", <<"T", "A", "X", "I">>, <<"-", "3", "%">>, FROM_21_TO_30),
       Rule("TAXI", <<"T", "A", "X", "I">>, <<"-", "4", "%">>, FROM_31_TO_50),
       Rule("MISD", <<"M", "i", "s", "d", ",", " ", "T", "r", "a", "c", "t", "o", "r">>, <<"8", "8", "%", " ", "o", "f", " ", "P", "a", "y", "i", "n">>, NIL) >>

\* FORMULA_DATA, in table order
FORMULA_DATA ==
    << Rule("TW", <<"1", "+", "5">>, <<"9", "0", "%", " ", "o", "f", " ", "P", "a", "y", "i", "n">>, NIL),
       Rule("TW", <<"T", "W", " ", "S", "A", "O", "D", " ", "+", " ", "C", "O", "M", "P">>, <<"9", "0", "%", " ", "o", "f", " ", "P", "a", "y", "i", "n">>, NIL),
       Rule("TW", <<"T", "W", " ", "T", "P">>, <<"-", "2", "%">>, BELOW_20),
       Rule("TW", <<"T", "W", " ", "T", "P">>, <<"-", "3", "%">>, FROM_21_TO_30),
       Rule("TW", <<"T", "W", " ", "T", "P">>, <<"-", "4", "%">>, FROM_31_TO_50),
       Rule("TW", <<"T", "W", " ", "T", "P">>, <<"-", "5", "%">>, ABOVE_50),
       Rule("PVT CAR", <<"P", "V", "T", " ", "C", "A", "R", " ", "C", "O", "M", "P", " ", "+", " ", "S", "A", "O", "D">>, <<"9", "0", "%", " ", "o", "f", " ", "P", "a", "y", "i", "n">>, NIL),
       Rule("PVT CAR", <<"P", "V", "T", " ", "C", "A", "R", " ", "T", "P">>, <<"2", "1">>, NIL),
       Rule("PVT CAR", <<"P", "V", "T", " ", "C", "A", "R", " ", "T", "P">>, <<"2", "1">>, <<"Z", "u", "n", "o", " ", "-", " ", "2", "1">>),
       Rule("CV", <<"A", "l", "l", " ", "G", "V", "W", " ", "&", " ", "P", "C", "V", " ", "3", "W", ",", " ", "G", "C", "V", " ", "3", "W">>, <<"-", "2", "%">>, BELOW_20),
       Rule("CV", <<"A", "l", "l", " ", "G", "V", "W", " ", "&", " ", "P", "C", "V", " ", "3", "W", ",", " ", "G", "C", "V", " ", "3", "W">>, <<"-", "3", "%">>, FROM_21_TO_30),
       Rule("CV", <<"A", "l", "l", " ", "G", "V", "W", " ", "&", " ", "P", "C", "V", " ", "3", "W", ",", " ", "G", "C", "V", " ", "3", "W">>, <<"-", "4", "%">>, FROM_31_TO_50),
       Rule("CV", <<"A", "l", "l", " ", "G", "V", "W", " ", "&", " ", "P", "C", "V", " ", "3", "W", ",", " ", "G", "C", "V", " ", "3", "W">>, <<"-", "5", "%">>, ABOVE_50),
       Rule("BUS", <<"S", "C", "H", "O", "O", "L", " ", "B", "U", "S">>, <<"8", "8", "%", " ", "o", "f", " ", "P", "a", "y", "i", "n">>, NIL),
       Rule("BUS", <<"S", "T", "A", "F", "F", " ", "B", "U", "S">>, <<"8", "8", "%", " ", "o", "f", " ", "P", "a", "y", "i", "n">>, NIL),
       Rule("TAXI", <<"T", "A", "X", "I">>, <<"-", "2", "%">>, BELOW_20),
       Rule("TAXI", <<"T", "A", "X", "I">>, <<"-", "3", "%">>, FROM_21_TO_30),
       Rule("TAXI", <<"T", "A", "X", "I">>, <<"-", "4", "%">>, FROM_31_TO_50),
       Rule("TAXI", <<"T", "A", "X", "I">>, <<"-", "5", "%">>, ABOVE_50),
       Rule("MISD", <<"M", "i", "s", "d", ",", " ", "T", "r", "a", "c", "t", "o", "r">>, <<"8", "8", "%", " ", "o", "f", " ", "P", "a", "y", "i", "n">>, NIL) >>

-----------------------------------------------------------------------------
(* Helper functions                                                        *)

\* A raw pay-in is a JSON number (num, value v) or a JSON string (text s).
NumPayin(x) == [num |-> TRUE, v |-> x, s |-> <<>>]

StrPayin(t) == [num |-> FALSE, v |-> 0, s |-> t]

\* the thresholds compared with < instead of <=
Bucket_exclusive(v) ==
    IF v < 20 * Unit THEN BELOW_20
    ELSE IF v < 30 * Unit THEN FROM_21_TO_30
    ELSE IF v < 50 * Unit THEN FROM_31_TO_50
    ELSE ABOVE_50

\* the if chain of lines 224-230
Bucket(v) ==
    IF v <= 20 * Unit THEN BELOW_20
    ELSE IF v <= 30 * Unit THEN FROM_21_TO_30
    ELSE IF v <= 50 * Unit THEN FROM_31_TO_50
    ELSE ABOVE_50

\* classify_payin: <<value, category>>; the except clause gives <<0, lowest>>
classify_payin(payin_value) ==
    LET text == Strip(Remove(Remove(Remove(payin_value.s, "%"), " "), "-"))
    IN  IF payin_value.num
        THEN <<payin_value.v, Bucket(payin_value.v)>>
        ELSE IF FloatParses(text)
        THEN <<FloatValue(text), Bucket(FloatValue(text))>>
        ELSE <<0, BELOW_20>>

AnyIn(s, keys) == \E k \in keys : Contains(s, k)

\* the CV keywords tested before the car keywords
determine_lob_cv_first(segment) ==
    LET s == Upper(segment)
    IN  IF Contains(s, <<"B", "U", "S">>) THEN "BUS"
        ELSE IF AnyIn(s, {<<"T", "W">>, <<"2", "W">>, <<"M", "C">>, <<"S", "C">>, <<"1", "+", "5">>}) THEN "TW"
        ELSE IF AnyIn(s, {<<"C", "V">>, <<"G", "V", "W">>, <<"P", "C", "V">>, <<"G", "C", "V">>}) THEN "CV"
        ELSE IF AnyIn(s, {<<"P", "V", "T", " ", "C", "A", "R">>, <<"C", "A", "R">>, <<"P", "C", "I">>}) THEN "PVT CAR"
        ELSE IF Contains(s, <<"T", "A", "X", "I">>) THEN "TAXI"
        ELSE IF AnyIn(s, {<<"M", "I", "S", "D">>, <<"T", "R", "A", "C", "T", "O", "R">>}) THEN "MISD"
        ELSE "UNKNOWN"

determine_lob(segment) ==
    LET s == Upper(segment)
    IN  IF Contains(s, <<"B", "U", "S">>) THEN "BUS"
        ELSE IF AnyIn(s, {<<"T", "W">>, <<"2", "W">>, <<"M", "C">>, <<"S", "C">>, <<"1", "+", "5">>}) THEN "TW"
        ELSE IF AnyIn(s, {<<"P", "V", "T", " ", "C", "A", "R">>, <<"C", "A", "R">>, <<"P", "C", "I">>}) THEN "PVT CAR"
        ELSE IF AnyIn(s, {<<"C", "V">>, <<"G", "V", "W">>, <<"P", "C", "V">>, <<"G", "C", "V">>}) THEN "CV"
        ELSE IF Contains(s, <<"T", "A", "X", "I">>) THEN "TAXI"
        ELSE IF AnyIn(s, {<<"M", "I", "S", "D">>, <<"T", "R", "A", "C", "T", "O", "R">>}) THEN "MISD"
        ELSE "UNKNOWN"

-----------------------------------------------------------------------------
(* Core formula application                                                *)

Dashes == {"-", "<en-dash>", "<em-dash>"}

\* the search without re.IGNORECASE
ZunoSearch_case_sensitive(remark) ==
    \E i \in 1..Len(remark) :
        /\ i + 3 <= Len(remark)
        /\ SubSeq(remark, i, i + 3) = <<"Z", "u", "n", "o">>
        /\ \E d \in (i + 4)..Len(remark) :
              /\ \A p \in (i + 4)..(d - 1) : IsSpace(remark[p])
              /\ remark[d] \in Dashes
              /\ \E e \in (d + 1)..(Len(remark) - 1) :
                    /\ \A p \in (d + 1)..(e - 1) : IsSpace(remark[p])
                    /\ remark[e] = "2" /\ remark[e + 1] = "1"

\* re.search of the pattern Zuno\s*[dash, en-dash, em-dash]\s*21 in remark,
\* with re.IGNORECASE
ZunoSearch(remark) ==
    \E i \in 1..Len(remark) :
        /\ i + 3 <= Len(remark)
        /\ Lower(SubSeq(remark, i, i + 3)) = <<"z", "u", "n", "o">>
        /\ \E d \in (i + 4)..Len(remark) :
              /\ \A p \in (i + 4)..(d - 1) : IsSpace(remark[p])
              /\ remark[d] \in Dashes
              /\ \E e \in (d + 1)..(Len(remark) - 1) :
                    /\ \A p \in (d + 1)..(e - 1) : IsSpace(remark[p])
                    /\ remark[e] = "2" /\ remark[e + 1] = "1"

\* remark = rec.get("remark"); a list is joined with spaces; then str().strip()
RemarkText(remark) ==
    Strip(IF remark.list THEN Join(remark.parts, <<" ">>) ELSE remark.parts[1])

RECURSIVE first_pass(_, _, _, _, _)
\* the first loop over FORMULA_DATA, from rule i on: index of the rule it
\* breaks at, 0 when it runs to the end
first_pass(i, lob, seg_up, payin_cat, remark) ==
    IF i > Len(FORMULA_DATA) THEN 0
    ELSE LET rule == FORMULA_DATA[i]
             rmrk == Strip(rule.REMARKS)
         IN  IF rule.LOB # lob
             THEN first_pass(i + 1, lob, seg_up, payin_cat, remark)
             ELSE IF ~Contains(seg_up, Upper(rule.SEGMENT))
             THEN first_pass(i + 1, lob, seg_up, payin_cat, remark)
             ELSE IF rmrk # NIL /\ (Contains(rmrk, payin_cat) \/ Contains(remark, rmrk))
             THEN i
             ELSE first_pass(i + 1, lob, seg_up, payin_cat, remark)

RECURSIVE second_pass_any_segment(_, _, _)
\* the second loop without its segment test
second_pass_any_segment(i, lob, seg_up) ==
    IF i > Len(FORMULA_DATA) THEN 0
    ELSE IF FORMULA_DATA[i].LOB = lob /\ Strip(FORMULA_DATA[i].REMARKS) = NIL THEN i
    ELSE second_pass_any_segment(i + 1, lob, seg_up)

RECURSIVE second_pass(_, _, _)
\* the second loop over FORMULA_DATA, from rule i on
second_pass(i, lob, seg_up) ==
    IF i > Len(FORMULA_DATA) THEN 0
    ELSE LET rule == FORMULA_DATA[i]
             rmrk == Strip(rule.REMARKS)
         IN  IF rule.LOB # lob
             THEN second_pass(i + 1, lob, seg_up)
             ELSE IF ~Contains(seg_up, Upper(rule.SEGMENT))
             THEN second_pass(i + 1, lob, seg_up)
             ELSE IF rmrk = NIL
             THEN i
             ELSE second_pass(i + 1, lob, seg_up)

RECURSIVE single_pass(_, _, _, _, _)
single_pass(i, lob, seg_up, payin_cat, remark) ==
    IF i > Len(FORMULA_DATA) THEN 0
    ELSE LET rule == FORMULA_DATA[i]
             rmrk == Strip(rule.REMARKS)
         IN  IF /\ rule.LOB = lob
                /\ Contains(seg_up, Upper(rule.SEGMENT))
                /\ (rmrk = NIL \/ Contains(rmrk, payin_cat) \/ Contains(remark, rmrk))
             THEN i
             ELSE single_pass(i + 1, lob, seg_up, payin_cat, remark)

\* one loop that takes the first candidate, wildcard or specific
match_rule_single_pass(lob, seg_up, payin_cat, remark) ==
    single_pass(1, lob, seg_up, payin_cat, remark)

\* `matched` after both loops (0 is None)
match_rule(lob, seg_up, payin_cat, remark) ==
    LET m == first_pass(1, lob, seg_up, payin_cat, remark)
    IN  IF m # 0 THEN m ELSE second_pass(1, lob, seg_up)

\* the formula dispatch on matched["PO"] and the clamp
rule_payout(po, payin_val) ==
    LET payout ==
            IF po = <<"2", "1">> THEN 21 * Unit
            ELSE IF Contains(po, <<"9", "0", "%", " ", "o", "f", " ", "P", "a", "y", "i", "n">>) THEN (payin_val * 90) \div 100
            ELSE IF Contains(po, <<"8", "8", "%", " ", "o", "f", " ", "P", "a", "y", "i", "n">>) THEN (payin_val * 88) \div 100
            ELSE IF Contains(po, <<"L", "e", "s", "s", " ", "2", "%">>) \/ Contains(po, <<"-", "2", "%">>) THEN payin_val - 2 * Unit
            ELSE IF Contains(po, <<"-", "3", "%">>) THEN payin_val - 3 * Unit
            ELSE IF Contains(po, <<"-", "4", "%">>) THEN payin_val - 4 * Unit
            ELSE IF Contains(po, <<"-", "5", "%">>) THEN payin_val - 5 * Unit
            ELSE payin_val
    IN  Max(0, payout)

Pct(x) == <<"%.2f%", Fmt2(x)>>

ZUNO_FORMULA == <<"Z", "u", "n", "o", " ", "-", " ", "2", "1", " ", "(", "f", "r", "o", "m", " ", "r", "e", "m", "a", "r", "k", ")">>

NO_RULE == <<"N", "o", " ", "m", "a", "t", "c", "h", "i", "n", "g", " ", "r", "u", "l", "e">>

OutRow(rec, remark, payout, formula, explanation) ==
    [ segment |-> rec.segment,
      policy_type |-> rec.policy_type,
      location |-> rec.location,
      payin |-> Pct(rec.Payin_Value),
      remark |-> remark,
      Calculated_Payout |-> Pct(payout),
      Formula_Used |-> formula,
      Rule_Explanation |-> explanation ]

\* the row appended by the except clause
ErrorRow(rec) ==
    [ segment |-> rec.segment,
      policy_type |-> rec.policy_type,
      location |-> rec.location,
      payin |-> <<"str", rec.payin>>,
      remark |-> <<"str", rec.remark>>,
      Calculated_Payout |-> <<"Error">>,
      Formula_Used |-> <<"E", "r", "r", "o", "r">>,
      Rule_Explanation |-> <<"Error: ", "exception">> ]

\* The try body of one iteration for a dict record: the row, and the locals
\* the iteration assigned (zuno: the override branch ran; lob and matched stay
\* unassigned, "" and 0, in that branch).
try_body(rec) ==
    LET segment == rec.segment
        payin_val == rec.Payin_Value
        payin_cat == rec.Payin_Category
        remark == RemarkText(rec.remark)
        lob == determine_lob(segment)
        seg_up == Upper(segment)
        matched == match_rule(lob, seg_up, payin_cat, remark)
    IN  IF ZunoSearch(remark)
        THEN [ row |-> OutRow(rec, remark, 21 * Unit, ZUNO_FORMULA,
                              <<"Remark contains 'Zuno - 21' -> Fixed payout of 21%">>),
               zuno |-> TRUE, lob |-> "", matched |-> 0 ]
        ELSE IF matched # 0
        THEN [ row |-> OutRow(rec, remark,
                              rule_payout(FORMULA_DATA[matched].PO, payin_val),
                              FORMULA_DATA[matched].PO,
                              <<"LOB=", lob, "Segment=", FORMULA_DATA[matched].SEGMENT,
                                "Rule=", FORMULA_DATA[matched].REMARKS>>),
               zuno |-> FALSE, lob |-> lob, matched |-> matched ]
        ELSE [ row |-> OutRow(rec, remark, payin_val, NO_RULE,
                              <<"No rule for LOB=", lob, "Segment=", seg_up,
                                "Payin=", payin_cat>>),
               zuno |-> FALSE, lob |-> lob, matched |-> 0 ]

\* rec.get("segment", "") in the try body raises AttributeError when the
\* array element is no JSON object; nothing else in the body can raise once
\* Payin_Value is a float
TryRaises(rec) == ~rec.dict

\* rec.get("segment", "Unknown") in the except clause raises the same way
HandlerRaises(rec) == ~rec.dict

RECURSIVE apply_loop(_, _, _, _)
\* the loop of apply_formula from record i on, with the rows appended so far
apply_loop(policy_data, i, result, assigned) ==
    IF i > Len(policy_data) THEN [raised |-> FALSE, rows |-> result, locals |-> assigned]
    ELSE LET rec == policy_data[i]
             t == try_body(rec)
         IN  IF ~TryRaises(rec)
             THEN apply_loop(policy_data, i + 1, Append(result, t.row),
                             Append(assigned, [zuno |-> t.zuno, lob |-> t.lob,
                                             matched |-> t.matched]))
             ELSE IF ~HandlerRaises(rec)
             THEN apply_loop(policy_data, i + 1, Append(result, ErrorRow(rec)),
                             Append(assigned, [zuno |-> FALSE, lob |-> "", matched |-> 0]))
             ELSE [raised |-> TRUE, rows |-> result, locals |-> assigned]

\* apply_formula(policy_data): the rows, or the exception leaving the function
apply_formula(policy_data) == apply_loop(policy_data, 1, <<>>, <<>>)

-----------------------------------------------------------------------------
(* OCR extraction                                                          *)
(* The model's reply is a token text: "[", "]", ",", " ", the markdown     *)
(* fences "<fence-json>" and "<fence>", "text" for prose, "null", and "v"    *)
(* JSON value; vals holds the values of the "v" tokens in order.           *)

IMAGE_EXTS == {<<"p", "n", "g">>, <<"j", "p", "g">>, <<"j", "p", "e", "g">>, <<"g", "i", "f">>, <<"b", "m", "p">>, <<"t", "i", "f", "f">>}

LastIndex(s, c) == CHOOSE i \in 1..Len(s) : s[i] = c /\ \A j \in (i + 1)..Len(s) : s[j] # c

\* filename.split(".")[-1].lower() if "." in filename else ""
file_ext(filename) ==
    IF "." \in Range(filename)
    THEN Lower(SubSeq(filename, LastIndex(filename, ".") + 1, Len(filename)))
    ELSE <<>>

RECURSIVE DropSpaces(_)
DropSpaces(t) == IF t # <<>> /\ IsSpace(t[1]) THEN DropSpaces(Tail(t)) ELSE t

RECURSIVE strip_fences(_)
\* re.sub of the two fence alternatives, scanning left to right: white space
\* before "<fence-json>" is consumed together with its three backticks by the
\* second alternative, which leaves the word "json" as prose
strip_fences(t) ==
    IF t = <<>> THEN <<>>
    ELSE IF t[1] = "<fence-json>" THEN strip_fences(DropSpaces(Tail(t)))
    ELSE IF t[1] = "<fence>" THEN strip_fences(Tail(t))
    ELSE IF IsSpace(t[1]) /\ DropSpaces(t) # <<>> /\ DropSpaces(t)[1] = "<fence>"
    THEN strip_fences(Tail(DropSpaces(t)))
    ELSE IF IsSpace(t[1]) /\ DropSpaces(t) # <<>> /\ DropSpaces(t)[1] = "<fence-json>"
    THEN <<"text">> \o strip_fences(Tail(DropSpaces(t)))
    ELSE <<t[1]>> \o strip_fences(Tail(t))

\* json.loads accepts the text: one value, null, or an array of values
json_loads_ok(t) ==
    LET w == Remove(t, " ")
        inner == SubSeq(w, 2, Len(w) - 1)
    IN  \/ w = <<"v">>
        \/ w = <<"null">>
        \/ /\ Len(w) >= 2 /\ w[1] = "[" /\ w[Len(w)] = "]"
           /\ \/ inner = <<>>
              \/ /\ Len(inner) % 2 = 1
                 /\ \A i \in 1..Len(inner) : inner[i] = IF i % 2 = 1 THEN "v" ELSE ","

CountV(t) == Cardinality({i \in 1..Len(t) : t[i] = "v"})

EMPTY_ARRAY == [toks |-> <<"[", "]">>, vals |-> <<>>]

\* lines 203-213 of extract_text_from_file: the returned string
clean_reply(reply) ==
    LET raw == Strip(reply.toks)
        cleaned == Strip(strip_fences(raw))
        start == IF "[" \in Range(cleaned) THEN IndexIn(cleaned, "[") ELSE 0
        end == IF "]" \in Range(cleaned) THEN LastIndex(cleaned, "]") ELSE 0
        sliced == IF start # 0 /\ end >= start THEN SubSeq(cleaned, start, end) ELSE cleaned
        before == IF start # 0 /\ end >= start THEN CountV(SubSeq(cleaned, 1, start - 1)) ELSE 0
    IN  IF reply.failed \/ ~json_loads_ok(sliced)
        THEN EMPTY_ARRAY
        ELSE [toks |-> sliced, vals |-> SubSeq(reply.vals, before + 1, before + CountV(sliced))]

-----------------------------------------------------------------------------
(* Inputs                                                                  *)

MaxBatch == 3

Filenames == {<<"r", ".", "p", "n", "g">>, <<"R", ".", "J", "P", "G">>, <<"r", ".", "p", "d", "f">>, <<"r", "e", "p", "o", "r", "t">>}

\* UploadFile.content_type: a string, or None when the part has no header
ContentTypes ==
    { [present |-> TRUE, text |-> <<"i", "m", "a", "g", "e", "/", "p", "n", "g">>],
      [present |-> TRUE, text |-> <<"a", "p", "p", "l", "i", "c", "a", "t", "i", "o", "n", "/", "p", "d", "f">>],
      [present |-> FALSE, text |-> <<>>] }

Uploads == [empty : BOOLEAN, filename : Filenames, content_type : ContentTypes]

Segments ==
    { <<"T", "W", " ", "T", "P">>, <<"T", "W", " ", "S", "A", "O", "D", " ", "+", " ", "C", "O", "M", "P">>, <<"1", "+", "5">>, <<"1", "+", "5", " ", "T", "W", " ", "T", "P">>, <<"T", "W", " ", "S", "A", "O", "D", " ", "+", " ", "C", "O", "M", "P", " ", "1", "+", "5">>,
      <<"P", "v", "t", " ", "C", "a", "r", " ", "T", "P">>, <<"P", "V", "T", " ", "C", "A", "R", " ", "C", "O", "M", "P", " ", "+", " ", "S", "A", "O", "D">>, <<"A", "l", "l", " ", "G", "V", "W", " ", "&", " ", "P", "C", "V", " ", "3", "W", ",", " ", "G", "C", "V", " ", "3", "W">>,
      <<"S", "C", "H", "O", "O", "L", " ", "B", "U", "S">>, <<"S", "t", "a", "f", "f", " ", "B", "u", "s">>, <<"T", "A", "X", "I">>, <<"G", "C", "V", " ", "T", "A", "X", "I">>, <<"M", "i", "s", "d", ",", " ", "T", "r", "a", "c", "t", "o", "r">>,
      <<"A", "M", "B", "U", "L", "A", "N", "C", "E">>, <<"P", "C", "V", " ", "C", "A", "R">>, <<>> }

Payins ==
    { NumPayin(0), NumPayin(20 * Unit), NumPayin(20 * Unit + 100), NumPayin(25 * Unit),
      NumPayin(30 * Unit), NumPayin(50 * Unit + 100), NumPayin(0 - 5 * Unit),
      StrPayin(<<"2", "5", "%">>), StrPayin(<<"-", "5", "%">>), StrPayin(<<" ", "3", "0", " ", "%">>), StrPayin(<<"2", "0", ".", "0", "1">>),
      StrPayin(<<"5", "0", ".", "0", "1", "%">>), StrPayin(<<"a", "b", "c">>), StrPayin(<<>>) }

TextRemark(t) == [list |-> FALSE, parts |-> <<t>>]

Remarks ==
    { TextRemark(<<>>), TextRemark(<<"Z", "u", "n", "o", "-", "2", "1">>), TextRemark(<<"Z", "u", "n", "o", " ", "<en-dash>", " ", "2", "1">>),
      TextRemark(<<"z", "u", "n", "o", " ", "-", " ", "2", "1">>), TextRemark(<<" ", "Z", "U", "N", "O", "<em-dash>", "2", "1", " ", "o", "n", "l", "y">>), TextRemark(<<"Z", "u", "n", "o", " ", "2", "1">>),
      TextRemark(<<"P", "a", "y", "i", "n", " ", "B", "e", "l", "o", "w", " ", "2", "0", "%">>),
      [list |-> TRUE, parts |-> <<<<"Z", "u", "n", "o">>, <<"-", " ", "2", "1">>>>] }

DictRec(seg, payin, remark) ==
    [dict |-> TRUE, segment |-> seg, policy_type |-> "TP", location |-> "Pune",
     payin |-> payin, remark |-> remark]

\* an array element that is no JSON object (a string, a number, null)
Scalar ==
    [dict |-> FALSE, segment |-> <<>>, policy_type |-> "", location |-> "",
     payin |-> NumPayin(0), remark |-> TextRemark(<<>>)]

AllRecords == {DictRec(s, p, r) : s \in Segments, p \in Payins, r \in Remarks}

BatchPool ==
    { DictRec(<<"T", "W", " ", "T", "P">>, StrPayin(<<"2", "5", "%">>), TextRemark(<<>>)),
      DictRec(<<"A", "M", "B", "U", "L", "A", "N", "C", "E">>, StrPayin(<<"a", "b", "c">>), TextRemark(<<>>)),
      DictRec(<<"P", "v", "t", " ", "C", "a", "r", " ", "T", "P">>, NumPayin(50 * Unit + 100), TextRemark(<<"Z", "u", "n", "o", "-", "2", "1">>)),
      Scalar }

SeqsUpTo(S, n) == UNION {[1..k -> S] : k \in 0..n}

Batches == SeqsUpTo(BatchPool, MaxBatch)

RECURSIVE ArrayToks(_, _)
\* "[v,v]" (sp = <<>>) or "[ v, v ]"
ArrayToks(n, sp) ==
    IF n = 0 THEN <<"[">> \o sp \o <<"]">>
    ELSE IF n = 1 THEN <<"[">> \o sp \o <<"v">> \o sp \o <<"]">>
    ELSE SubSeq(ArrayToks(n - 1, sp), 1, Len(ArrayToks(n - 1, sp)) - 1 - Len(sp))
         \o <<",">> \o sp \o <<"v">> \o sp \o <<"]">>

Reply(toks, vals) == [failed |-> FALSE, toks |-> toks, vals |-> vals]

ModelReplies ==
    {Reply(ArrayToks(Len(b), <<>>), b) : b \in Batches}
    \cup {Reply(ArrayToks(Len(b), <<" ">>), b) : b \in Batches}
    \cup {Reply(<<"<fence-json>", " ">> \o ArrayToks(Len(b), <<>>) \o <<" ", "<fence>">>, b) : b \in Batches}
    \cup {Reply(<<"text", " ", "<fence-json>", " ">> \o ArrayToks(Len(b), <<>>) \o <<" ", "<fence>", " ", "text">>, b) :
            b \in Batches}
    \cup {Reply(<<"v">>, <<r>>) : r \in BatchPool}
    \cup { Reply(<<>>, <<>>), Reply(<<"text">>, <<>>), Reply(<<"null">>, <<>>),
           Reply(<<"[", "v", ",">>, <<Scalar>>),
           [failed |-> TRUE, toks |-> <<>>, vals |-> <<>>] }

-----------------------------------------------------------------------------
(* The /process request                                                    *)

NoResponse == [status |-> 0, error |-> ""]

Init ==
    /\ pc = "idle"
    /\ upload \in Uploads
    /\ modelCalls = 0
    /\ extracted = [toks |-> <<>>, vals |-> <<>>]
    /\ data = [list |-> TRUE, items |-> <<>>]
    /\ calculated = <<>>
    /\ locals = <<>>
    /\ response = NoResponse

Respond(status, error) ==
    /\ response' = [status |-> status, error |-> error]
    /\ pc' = "done"

\* process_policy, lines 450-454: read the upload, reject an empty one
process_policy ==
    /\ pc = "idle"
    /\ IF upload.empty
       THEN Respond(400, "Empty file")
       ELSE pc' = "extract" /\ UNCHANGED response
    /\ UNCHANGED <<upload, modelCalls, extracted, data, calculated, locals>>

\* the check with the `not` before content_type.startswith left out
type_check_inverted(filename, content_type) ==
    IF file_ext(filename) \in IMAGE_EXTS THEN "ok"
    ELSE IF ~content_type.present THEN "AttributeError"
    ELSE IF StartsWith(content_type.text, <<"i", "m", "a", "g", "e", "/">>) THEN "ValueError"
    ELSE "ok"

\* lines 80-84 of extract_text_from_file: "ok", or the exception raised
type_check(filename, content_type) ==
    IF file_ext(filename) \in IMAGE_EXTS THEN "ok"
    ELSE IF ~content_type.present THEN "AttributeError"
    ELSE IF ~StartsWith(content_type.text, <<"i", "m", "a", "g", "e", "/">>) THEN "ValueError"
    ELSE "ok"

\* extract_text_from_file: the file-type check, the model call and the
\* cleaning of its reply.  The ValueError of the check is answered by
\* `except ValueError`, None.startswith (AttributeError) by `except Exception`.
extract_text_from_file ==
    /\ pc = "extract"
    /\ IF type_check(upload.filename, upload.content_type) = "AttributeError"
       THEN Respond(500, "Processing failed") /\ UNCHANGED <<modelCalls, extracted>>
       ELSE IF type_check(upload.filename, upload.content_type) = "ValueError"
       THEN Respond(400, "Unsupported file type") /\ UNCHANGED <<modelCalls, extracted>>
       ELSE \E reply \in ModelReplies :
                /\ modelCalls' = modelCalls + 1
                /\ extracted' = clean_reply(reply)
                /\ pc' = "load"
                /\ UNCHANGED response
    /\ UNCHANGED <<upload, data, calculated, locals>>

\* process_files, lines 385-390
load_extracted ==
    /\ pc = "load"
    /\ IF extracted.toks = <<>> \/ extracted.toks = <<"[", "]">>
       THEN Respond(400, "No text extracted from image") /\ UNCHANGED data
       ELSE /\ data' = IF Remove(extracted.toks, " ") = <<"null">>
                       THEN [list |-> FALSE, items |-> <<>>]
                       ELSE IF Remove(extracted.toks, " ") = <<"v">>
                       THEN [list |-> extracted.vals[1].dict, items |-> extracted.vals]
                       ELSE [list |-> TRUE, items |-> extracted.vals]
            /\ pc' = "classify"
            /\ UNCHANGED response
    /\ UNCHANGED <<upload, modelCalls, extracted, calculated, locals>>

Classified(r) ==
    ("Payin_Value" :> classify_payin(r.payin)[1])
        @@ ("Payin_Category" :> classify_payin(r.payin)[2]) @@ r

RECURSIVE classify_loop(_, _)
\* the loop of lines 393-396 from record i on: r.get raises for a non-object
classify_loop(items, i) ==
    IF i > Len(items) THEN [raised |-> FALSE, items |-> items]
    ELSE IF ~items[i].dict THEN [raised |-> TRUE, items |-> items]
    ELSE classify_loop([items EXCEPT ![i] = Classified(items[i])], i + 1)

\* process_files, lines 393-396
classify_records ==
    /\ pc = "classify"
    /\ IF ~data.list \/ classify_loop(data.items, 1).raised
       THEN Respond(500, "Processing failed") /\ UNCHANGED data
       ELSE /\ data' = [data EXCEPT !.items = classify_loop(data.items, 1).items]
            /\ pc' = "apply"
            /\ UNCHANGED response
    /\ UNCHANGED <<upload, modelCalls, extracted, calculated, locals>>

\* process_files, line 398
calculate ==
    /\ pc = "apply"
    /\ LET r == apply_formula(data.items)
       IN  IF r.raised
           THEN Respond(500, "Processing failed") /\ UNCHANGED <<calculated, locals>>
           ELSE /\ calculated' = r.rows
                /\ locals' = r.locals
                /\ pc' = "report"
                /\ UNCHANGED response
    /\ UNCHANGED <<upload, modelCalls, extracted, data>>

\* What the spreadsheet export of lines 401-413 does with an empty frame is
\* decided by pandas and openpyxl: it passes, raises ValueError or raises
\* another exception.
ExportOutcomes == {"ok", "ValueError", "Exception"}

\* process_files, lines 400-436, and the response of line 454
build_response ==
    /\ pc = "report"
    /\ IF calculated # <<>>
       THEN Respond(200, "")
       ELSE \E outcome \in ExportOutcomes :
                IF outcome = "ValueError"
                THEN Respond(400, "export")
                ELSE \* "ok": avg_payin divides by len(data) = 0, ZeroDivisionError
                     Respond(500, "Processing failed")
    /\ UNCHANGED <<upload, modelCalls, extracted, data, calculated, locals>>

Next ==
    \/ process_policy
    \/ extract_text_from_file
    \/ load_extracted
    \/ classify_records
    \/ calculate
    \/ build_response

Spec == Init /\ [][Next]_vars

\* The rule engine on its own: process_files at line 392 with one extracted
\* record, drawn from every combination of segment, pay-in and remark.
InitEngine ==
    /\ pc = "classify"
    /\ upload = [empty |-> FALSE, filename |-> <<"r", ".", "p", "n", "g">>,
                 content_type |-> [present |-> TRUE, text |-> <<"i", "m", "a", "g", "e", "/", "p", "n", "g">>]]
    /\ modelCalls = 1
    /\ \E r \in AllRecords :
          /\ extracted = [toks |-> <<"[", "v", "]">>, vals |-> <<r>>]
          /\ data = [list |-> TRUE, items |-> <<r>>]
    /\ calculated = <<>>
    /\ locals = <<>>
    /\ response = NoResponse

NextEngine ==
    \/ classify_records
    \/ calculate
    \/ build_response

SpecEngine == InitEngine /\ [][NextEngine]_vars

-----------------------------------------------------------------------------
(* Properties                                                              *)

\* the records whose rows are in `calculated`
Rows == 1..Len(calculated)

\* the remarks of the input alphabet that read Zuno, a dash, 21
ZunoRemarks ==
    { TextRemark(<<"Z", "u", "n", "o", "-", "2", "1">>), TextRemark(<<"Z", "u", "n", "o", " ", "<en-dash>", " ", "2", "1">>), TextRemark(<<"z", "u", "n", "o", " ", "-", " ", "2", "1">>),
      TextRemark(<<" ", "Z", "U", "N", "O", "<em-dash>", "2", "1", " ", "o", "n", "l", "y">>), [list |-> TRUE, parts |-> <<<<"Z", "u", "n", "o">>, <<"-", " ", "2", "1">>>>] }

\* the keyword sets of the line-of-business resolver, in priority order
LobPriority ==
    << [lob |-> "BUS", keys |-> {<<"B", "U", "S">>}],
       [lob |-> "TW", keys |-> {<<"T", "W">>, <<"2", "W">>, <<"M", "C">>, <<"S", "C">>, <<"1", "+", "5">>}],
       [lob |-> "PVT CAR", keys |-> {<<"P", "V", "T", " ", "C", "A", "R">>, <<"C", "A", "R">>, <<"P", "C", "I">>}],
       [lob |-> "CV", keys |-> {<<"C", "V">>, <<"G", "V", "W">>, <<"P", "C", "V">>, <<"G", "C", "V">>}],
       [lob |-> "TAXI", keys |-> {<<"T", "A", "X", "I">>}],
       [lob |-> "MISD", keys |-> {<<"M", "I", "S", "D">>, <<"T", "R", "A", "C", "T", "O", "R">>}] >>

LobHits(segment) ==
    {k \in 1..Len(LobPriority) : \E w \in LobPriority[k].keys : Contains(Upper(segment), w)}

Least(S) == CHOOSE x \in S : \A y \in S : x <= y

ExpectedLob(segment) ==
    IF LobHits(segment) = {} THEN "UNKNOWN" ELSE LobPriority[Least(LobHits(segment))].lob

\* the rules with the record's line-of-business and a segment pattern
\* contained in its upper-cased segment
Candidates(segment) ==
    {k \in 1..Len(FORMULA_DATA) :
        /\ FORMULA_DATA[k].LOB = ExpectedLob(segment)
        /\ Contains(Upper(segment), Upper(FORMULA_DATA[k].SEGMENT))}

SpecificMatches(segment, payin_cat, remark) ==
    {k \in Candidates(segment) :
        /\ FORMULA_DATA[k].REMARKS # NIL
        /\ \/ Contains(FORMULA_DATA[k].REMARKS, payin_cat)
           \/ Contains(remark, FORMULA_DATA[k].REMARKS)}

NilCandidates(segment) == {k \in Candidates(segment) : FORMULA_DATA[k].REMARKS = NIL}

ExpectedRule(segment, payin_cat, remark) ==
    IF SpecificMatches(segment, payin_cat, remark) # {}
    THEN Least(SpecificMatches(segment, payin_cat, remark))
    ELSE IF NilCandidates(segment) # {} THEN Least(NilCandidates(segment))
    ELSE 0

\* C1: every record whose remark reads Zuno, dash, 21 (any case, any of the
\* three dashes, optional spaces) gets payout exactly 21.00 with the override
\* label, whatever its pay-in and segment, and the iteration consults no
\* rule: it assigns neither a line-of-business nor a matched rule.
C1_ZunoOverride ==
    \A i \in Rows :
        data.items[i].remark \in ZunoRemarks =>
            /\ calculated[i].Calculated_Payout = <<"%.2f%", 2100>>
            /\ calculated[i].Formula_Used = ZUNO_FORMULA
            /\ locals[i].zuno /\ locals[i].lob = "" /\ locals[i].matched = 0

\* a lower-case override remark on a TW TP record, whose rules would
\* otherwise subtract from a pay-in other than 21
C1_Witness ==
    /\ pc = "report"
    /\ \E i \in Rows :
        /\ data.items[i].remark = TextRemark(<<"z", "u", "n", "o", " ", "-", " ", "2", "1">>)
        /\ data.items[i].segment = <<"T", "W", " ", "T", "P">>
        /\ data.items[i].Payin_Value = 50 * Unit + 100
        /\ calculated[i].Calculated_Payout = <<"%.2f%", 2100>>

\* array elements whose processing fails: those that are no JSON object
Malformed(items) == {i \in 1..Len(items) : ~items[i].dict}

ErrorRows == {i \in Rows : calculated[i].Formula_Used = <<"E", "r", "r", "o", "r">>}

\* C2: a batch with exactly one malformed record and N well-formed ones ends
\* with N+1 output rows, exactly one of them an "Error" row carrying the
\* original fields, the other N processed; the request is not aborted.
C2_ErrorIsolation ==
    (pc = "done" /\ data.list /\ Cardinality(Malformed(data.items)) = 1) =>
        /\ response.status = 200
        /\ Len(calculated) = Len(data.items)
        /\ Cardinality(ErrorRows) = 1
        /\ \A i \in Rows :
              IF i \in Malformed(data.items)
              THEN /\ calculated[i].Formula_Used = <<"E", "r", "r", "o", "r">>
                   /\ calculated[i].segment = data.items[i].segment
              ELSE calculated[i].Formula_Used # <<"E", "r", "r", "o", "r">>

\* the extraction returned an array without records
NoRecords == extracted.vals = <<>> /\ Remove(extracted.toks, " ") = <<"[", "]">>

\* C3: whenever the extraction yields an empty array, in whatever textual
\* form, the request ends in the "no text extracted" client error (400),
\* never in a server error.
C3_EmptyExtractionIs400 ==
    (pc = "done" /\ modelCalls > 0 /\ NoRecords) =>
        response = [status |-> 400, error |-> "No text extracted from image"]

\* the upload declares a content type, and it is not an image type
NonImageType(content_type) ==
    content_type.present /\ ~StartsWith(content_type.text, <<"i", "m", "a", "g", "e", "/">>)

C5_PayoutNonNegative ==
    \A i \in Rows :
        calculated[i].Formula_Used # <<"E", "r", "r", "o", "r">> => calculated[i].Calculated_Payout[2] >= 0

\* the records of `data` carry Payin_Value and Payin_Category
IsClassified == pc \in {"apply", "report"} \/ (pc = "done" /\ response.status = 200)

Unparseable == {StrPayin(<<"a", "b", "c">>), StrPayin(<<>>)}

\* C6: classify_payin never raises and buckets with inclusive upper bounds
\* (20.00 and 30.00 stay in the lower bucket, 20.01 and 50.01 go to the
\* upper one); an input that does not parse gives exactly (0.0, lowest).
C6_Buckets ==
    /\ pc \in {"apply", "report", "done"} => IsClassified
    /\ IsClassified =>
        \A i \in 1..Len(data.items) :
            LET v == data.items[i].Payin_Value
                c == data.items[i].Payin_Category
                raw == data.items[i].payin
            IN  /\ v <= 20 * Unit => c = BELOW_20
                /\ (20 * Unit < v /\ v <= 30 * Unit) => c = FROM_21_TO_30
                /\ (30 * Unit < v /\ v <= 50 * Unit) => c = FROM_31_TO_50
                /\ v > 50 * Unit => c = ABOVE_50
                /\ raw \in Unparseable => (v = 0 /\ c = BELOW_20)
                /\ raw \in {NumPayin(20 * Unit + 100), StrPayin(<<"2", "0", ".", "0", "1">>)}
                      => (v = 20 * Unit + 100 /\ c = FROM_21_TO_30)
                /\ raw = StrPayin(<<" ", "3", "0", " ", "%">>) => (v = 30 * Unit /\ c = FROM_21_TO_30)
                /\ raw = StrPayin(<<"5", "0", ".", "0", "1", "%">>) => (v = 50 * Unit + 100 /\ c = ABOVE_50)

\* the boundary 20.00 classified into the lowest bucket
C6_Witness ==
    /\ pc = "apply"
    /\ \E i \in 1..Len(data.items) :
        /\ data.items[i].payin = NumPayin(20 * Unit)
        /\ data.items[i].Payin_Value = 20 * Unit
        /\ data.items[i].Payin_Category = BELOW_20

\* C7: the pay-in value of every classified record is non-negative.
C7_PayinNonNegative ==
    IsClassified => \A i \in 1..Len(data.items) : data.items[i].Payin_Value >= 0

\* C8: determine_lob gives the line-of-business of the first keyword set, in
\* the order BUS, TW, PVT CAR, CV, TAXI, MISD, that has a keyword inside the
\* upper-cased segment, and UNKNOWN when none has.
C8_LobPriority ==
    \A i \in Rows :
        ~locals[i].zuno => locals[i].lob = ExpectedLob(data.items[i].segment)

\* "PCV CAR" holds keywords of the car set and of the CV set; the car set wins
C8_Witness ==
    /\ pc = "report"
    /\ \E i \in Rows :
        /\ data.items[i].segment = <<"P", "C", "V", " ", "C", "A", "R">>
        /\ Cardinality(LobHits(data.items[i].segment)) > 1
        /\ locals[i].lob = "PVT CAR"

\* C9: a record without the override and without any candidate rule gets its
\* unmodified pay-in as payout, the label "No matching rule" and an
\* explanation naming line-of-business, segment and pay-in bucket.
C9_NoCandidateFallback ==
    \A i \in Rows :
        (data.items[i].remark \notin ZunoRemarks /\ Candidates(data.items[i].segment) = {}) =>
            /\ calculated[i].Calculated_Payout = <<"%.2f%", Fmt2(data.items[i].Payin_Value)>>
            /\ calculated[i].Calculated_Payout = calculated[i].payin
            /\ calculated[i].Formula_Used = NO_RULE
            /\ calculated[i].Rule_Explanation =
                  <<"No rule for LOB=", ExpectedLob(data.items[i].segment),
                    "Segment=", Upper(data.items[i].segment),
                    "Payin=", data.items[i].Payin_Category>>

\* an UNKNOWN segment with pay-in 25 keeps 25.00
C9_Witness ==
    /\ pc = "report"
    /\ \E i \in Rows :
        /\ data.items[i].segment = <<"A", "M", "B", "U", "L", "A", "N", "C", "E">>
        /\ data.items[i].remark = TextRemark(<<>>)
        /\ locals[i].lob = "UNKNOWN"
        /\ calculated[i].Formula_Used = NO_RULE
        /\ calculated[i].Calculated_Payout = <<"%.2f%", 2500>>

\* C10: among the candidate rules the rule applied is the first, in table
\* order, that is not "NIL" and matches the pay-in category or the remark;
\* only when there is none, the first "NIL" candidate in table order, even
\* if a "NIL" candidate stands earlier in the table than the specific match.
C10_TwoPassSelection ==
    \A i \in Rows :
        ~locals[i].zuno =>
            LET m == ExpectedRule(data.items[i].segment, data.items[i].Payin_Category,
                                  calculated[i].remark)
            IN  /\ locals[i].matched = m
                /\ m # 0 =>
                     /\ calculated[i].Formula_Used = FORMULA_DATA[m].PO
                     /\ calculated[i].Rule_Explanation =
                           <<"LOB=", FORMULA_DATA[m].LOB, "Segment=", FORMULA_DATA[m].SEGMENT,
                             "Rule=", FORMULA_DATA[m].REMARKS>>

\* "1+5 TW TP" has the NIL candidate "1+5" (rule 1) before the matching
\* specific rule "TW TP" / 21% to 30% (rule 4)
C10_Witness ==
    /\ pc = "report"
    /\ \E i \in Rows :
        /\ data.items[i].segment = <<"1", "+", "5", " ", "T", "W", " ", "T", "P">>
        /\ 1 \in NilCandidates(data.items[i].segment)
        /\ locals[i].matched = 4
        /\ calculated[i].Calculated_Payout = <<"%.2f%", 2200>>

\* the four bucket labels classify_payin returns
BucketLabels == {BELOW_20, FROM_21_TO_30, FROM_31_TO_50, ABOVE_50}

\* C11 as claimed: for every classified record that has a candidate rule one
\* of the two passes selects a rule, and the result is "No matching rule"
\* exactly when the record has no candidate rule.
C11_TableComplete ==
    \A i \in Rows :
        /\ data.items[i].Payin_Category \in BucketLabels
        /\ Candidates(data.items[i].segment) # {} => locals[i].matched # 0
        /\ calculated[i].Formula_Used = NO_RULE <=> Candidates(data.items[i].segment) = {}

\* C11, amended: for every classified record that does not take the Zuno
\* override and has a candidate rule one of the two passes selects a rule,
\* and among the records without the override the result is "No matching
\* rule" exactly for those without a candidate rule.
C11_TableCompleteWithoutOverride ==
    \A i \in Rows :
        /\ data.items[i].Payin_Category \in BucketLabels
        /\ data.items[i].remark \notin ZunoRemarks =>
              /\ Candidates(data.items[i].segment) # {} <=> locals[i].matched # 0
              /\ calculated[i].Formula_Used = NO_RULE
                    <=> Candidates(data.items[i].segment) = {}

\* a TAXI record above 50%: its candidates are the four TAXI rules, none of
\* them NIL, and the first pass selects the last of them by the category
C11_Witness ==
    /\ pc = "report"
    /\ \E i \in Rows :
        /\ data.items[i].segment = <<"T", "A", "X", "I">>
        /\ data.items[i].remark = TextRemark(<<>>)
        /\ data.items[i].Payin_Category = ABOVE_50
        /\ Cardinality(Candidates(data.items[i].segment)) = 4
        /\ NilCandidates(data.items[i].segment) = {}
        /\ locals[i].matched # 0
        /\ FORMULA_DATA[locals[i].matched].REMARKS = ABOVE_50

====
